---- MODULE Spec2Model ----
(***************************************************************************)
(* Model of release-plz's configuration resolver                           *)
(* (crates/release_plz/src/config.rs) and of its repository URL model      *)
(* (crates/release_plz_core/src/repo_url.rs).                              *)
(*                                                                         *)
(* Both components are pure functions over immutable data.  Each gets a    *)
(* specification whose initial states enumerate the inputs and whose       *)
(* actions apply the operations:                                           *)
(*   SpecMerge    PackageConfig::merge on a pair of PackageConfig values   *)
(*   SpecConfig   Config::fill_update_config / Config::fill_release_config *)
(*   SpecRepoUrl  RepoUrl::new and the link builders                       *)
(*   SpecTimeout  Workspace::publish_timeout                               *)
(*   SpecDuplicates  the resolver on a package list that repeats a name    *)
(***************************************************************************)
EXTENDS Integers, Sequences, FiniteSets, TLC

VARIABLES
    workspace,        \* Config.workspace (the Workspace value)
    package,          \* Config.package: Vec<PackageSpecificConfigWithName>
    call,             \* the last operation invoked, with its arguments
    merged,           \* value returned by the last PackageConfig::merge
    update_request,   \* UpdateRequest returned by the last fill_update_config
    release_request,  \* ReleaseRequest returned by the last fill_release_config
    git_host_url,     \* argument of RepoUrl::new
    git_url,          \* outcome of GitUrl::parse(git_host_url)
    repo_url,         \* anyhow::Result<RepoUrl> returned by RepoUrl::new
    link,             \* String returned by the last link builder
    duration          \* anyhow::Result<Duration> returned by publish_timeout

vars == <<workspace, package, call, merged, update_request, release_request,
          git_host_url, git_url, repo_url, link, duration>>

configVars ==
    <<workspace, package, merged, update_request, release_request, duration>>
repoVars == <<git_host_url, git_url, repo_url, link>>

(***************************************************************************)
(* Bounds of the model.                                                    *)
(***************************************************************************)
\* Largest number of [[package]] entries in a declared configuration.
MaxPackages == 1
\* Largest number of fields that are present (Some) in one declared
\* configuration, counted over the workspace and all package entries.
MaxPresent == 2
\* Largest number of fields that are present in the two arguments of one
\* merge, counted over both.
MaxMergePresent == 3
\* Largest number written in a publish_timeout string.
MaxTimeout == 30
\* Largest number of [[package]] entries that carry the same name.
MaxSameName == 2

(***************************************************************************)
(* Option<T>: None is the empty sequence, Some(v) the one-element one.     *)
(***************************************************************************)
None == <<>>
Some(v) == <<v>>

\* Option::or
Or(a, b) == IF a # None THEN a ELSE b

\* Option::unwrap_or_default for Option<Vec<String>>
UnwrapOrDefault(a) == IF a # None THEN a[1] ELSE <<>>

(***************************************************************************)
(* Declared configuration.                                                 *)
(***************************************************************************)
\* enum ReleaseType
ReleaseType == {"Prod", "Pre", "Auto"}

\* The Option<bool> fields of struct PackageConfig.
BoolFields ==
    {"changelog_update", "git_release_enable", "git_release_draft",
     "git_tag_enable", "publish", "publish_allow_dirty", "publish_no_verify",
     "semver_check", "release"}

\* All fields of struct PackageConfig.
PackageConfigFields == BoolFields \cup {"git_release_type"}

\* The fields of PackageSpecificConfig besides `common`.
PackageOnlyFields == {"changelog_path", "changelog_include"}

\* The values a present field can take.
FieldValues(f) ==
    CASE f \in BoolFields -> BOOLEAN
      [] f = "git_release_type" -> ReleaseType
      [] f = "changelog_path" -> {"./CHANGELOG.md"}
      [] f = "changelog_include" -> {<<"pkg1">>}

\* Package names a [[package]] entry can carry.
PackageNames == {"crate1", "crate2"}

\* One `key = value` line of the configuration document: level 0 is the
\* [workspace] table, level i > 0 the i-th [[package]] table.
FieldsAt(l) ==
    IF l = 0 THEN PackageConfigFields
    ELSE PackageConfigFields \cup PackageOnlyFields

Settings(n) ==
    UNION { UNION { { [field |-> f, level |-> l, value |-> v] :
                        v \in FieldValues(f) } : f \in FieldsAt(l) } :
            l \in 0..n }

\* A document sets no field of a table twice.
IsDocument(S) ==
    \A s \in S, t \in S :
        (s.level = t.level /\ s.field = t.field) => s = t

RECURSIVE SubsetsUpTo(_, _)
SubsetsUpTo(U, k) ==
    IF k = 0 THEN {{}}
    ELSE LET prev == SubsetsUpTo(U, k - 1)
         IN  prev \cup { s \cup {x} : s \in prev, x \in U }

\* The documents with n [[package]] tables and at most k settings.
Documents(n, k) == { S \in SubsetsUpTo(Settings(n), k) : IsDocument(S) }

\* The value the document S gives field f of table l.
FieldOf(S, l, f) ==
    IF \E s \in S : s.level = l /\ s.field = f
    THEN Some((CHOOSE s \in S : s.level = l /\ s.field = f).value)
    ELSE None

\* struct PackageConfig read from table l of document S.
PackageConfigOf(S, l) == [f \in PackageConfigFields |-> FieldOf(S, l, f)]

\* struct PackageSpecificConfigWithName read from table l of document S.
PackageOf(S, l, n) ==
    [name |-> n,
     config |-> [common |-> PackageConfigOf(S, l),
                 changelog_path |-> FieldOf(S, l, "changelog_path"),
                 changelog_include |-> FieldOf(S, l, "changelog_include")]]

\* Lists of package names of length at most MaxPackages.  Names are opaque
\* keys, so a list stands for every list obtained by renaming: the first
\* entry, if any, is crate1.
NameLists ==
    { names \in UNION { [1..n -> PackageNames] : n \in 0..MaxPackages } :
        names # <<>> => names[1] = "crate1" }

\* struct Workspace (the fields the resolver reads).
WorkspaceOf(S) == [packages_defaults |-> PackageConfigOf(S, 0)]

(***************************************************************************)
(* PackageConfig::merge                                                    *)
(***************************************************************************)
\* merge with a copy-and-paste slip: publish_allow_dirty falls back to the
\* default's publish_no_verify.
merge_wrong_fallback(self, default) ==
    [semver_check |-> Or(self.semver_check, default.semver_check),
     changelog_update |-> Or(self.changelog_update, default.changelog_update),
     git_release_enable |->
         Or(self.git_release_enable, default.git_release_enable),
     git_release_type |-> Or(self.git_release_type, default.git_release_type),
     git_release_draft |->
         Or(self.git_release_draft, default.git_release_draft),
     publish |-> Or(self.publish, default.publish),
     publish_allow_dirty |->
         Or(self.publish_allow_dirty, default.publish_no_verify),
     publish_no_verify |->
         Or(self.publish_no_verify, default.publish_no_verify),
     git_tag_enable |-> Or(self.git_tag_enable, default.git_tag_enable),
     release |-> Or(self.release, default.release)]

merge(self, default) ==
    [semver_check |-> Or(self.semver_check, default.semver_check),
     changelog_update |-> Or(self.changelog_update, default.changelog_update),
     git_release_enable |->
         Or(self.git_release_enable, default.git_release_enable),
     git_release_type |-> Or(self.git_release_type, default.git_release_type),
     git_release_draft |->
         Or(self.git_release_draft, default.git_release_draft),
     publish |-> Or(self.publish, default.publish),
     publish_allow_dirty |->
         Or(self.publish_allow_dirty, default.publish_allow_dirty),
     publish_no_verify |->
         Or(self.publish_no_verify, default.publish_no_verify),
     git_tag_enable |-> Or(self.git_tag_enable, default.git_tag_enable),
     release |-> Or(self.release, default.release)]

\* PackageSpecificConfig::merge
merge_specific(self, default) ==
    [common |-> merge(self.common, default),
     changelog_path |-> self.changelog_path,
     changelog_include |-> self.changelog_include]

(***************************************************************************)
(* Conversions to the engine-facing types.                                 *)
(***************************************************************************)
\* The conversion with semver_check read as opt-in: absent means false.
UpdateConfigFrom_semver_opt_in(config) ==
    [semver_check |-> config.semver_check = Some(TRUE),
     changelog_update |-> config.changelog_update # Some(FALSE),
     release |-> config.release # Some(FALSE)]

\* impl From<PackageConfig> for release_plz_core::UpdateConfig
UpdateConfigFrom(config) ==
    [semver_check |-> config.semver_check # Some(FALSE),
     changelog_update |-> config.changelog_update # Some(FALSE),
     release |-> config.release # Some(FALSE)]

\* impl From<PackageSpecificConfig> for release_plz_core::PackageUpdateConfig
PackageUpdateConfigFrom(config) ==
    [generic |-> UpdateConfigFrom(config.common),
     changelog_path |-> config.changelog_path,
     changelog_include |-> UnwrapOrDefault(config.changelog_include)]

\* release_plz_core::ReleaseConfig::default() and its builders.
ReleaseConfigDefault ==
    [publish |-> [enabled |-> TRUE],
     git_release |-> [enabled |-> TRUE, draft |-> FALSE],
     git_tag |-> [enabled |-> TRUE],
     no_verify |-> FALSE,
     allow_dirty |-> FALSE,
     release |-> TRUE]

PublishConfigEnabled(enabled) == [enabled |-> enabled]
GitReleaseConfigEnabled(enabled) == [enabled |-> enabled, draft |-> FALSE]
GitTagConfigEnabled(enabled) == [enabled |-> enabled]
set_draft(git_release, draft) == [git_release EXCEPT !.draft = draft]
with_publish(cfg, publish) == [cfg EXCEPT !.publish = publish]
with_git_release(cfg, git_release) == [cfg EXCEPT !.git_release = git_release]
with_git_tag(cfg, git_tag) == [cfg EXCEPT !.git_tag = git_tag]
with_release(cfg, release) == [cfg EXCEPT !.release = release]
with_no_verify(cfg, no_verify) == [cfg EXCEPT !.no_verify = no_verify]
with_allow_dirty(cfg, allow_dirty) == [cfg EXCEPT !.allow_dirty = allow_dirty]

\* The conversion with the draft flag read like the enable flags: draft
\* unless explicitly false.
ReleaseConfigFrom_draft_unless_false(value) ==
    LET is_publish_enabled == value.publish # Some(FALSE)
        is_git_release_enabled == value.git_release_enable # Some(FALSE)
        is_git_release_draft == value.git_release_draft # Some(FALSE)
        is_git_tag_enabled == value.git_tag_enable # Some(FALSE)
        release == value.release # Some(FALSE)
        cfg0 ==
            with_release(
                with_git_tag(
                    with_git_release(
                        with_publish(ReleaseConfigDefault,
                                     PublishConfigEnabled(is_publish_enabled)),
                        set_draft(
                            GitReleaseConfigEnabled(is_git_release_enabled),
                            is_git_release_draft)),
                    GitTagConfigEnabled(is_git_tag_enabled)),
                release)
        cfg1 == IF value.publish_no_verify # None
                THEN with_no_verify(cfg0, value.publish_no_verify[1])
                ELSE cfg0
        cfg2 == IF value.publish_allow_dirty # None
                THEN with_allow_dirty(cfg1, value.publish_allow_dirty[1])
                ELSE cfg1
    IN  cfg2

\* impl From<PackageConfig> for release_plz_core::ReleaseConfig
ReleaseConfigFrom(value) ==
    LET is_publish_enabled == value.publish # Some(FALSE)
        is_git_release_enabled == value.git_release_enable # Some(FALSE)
        is_git_release_draft == value.git_release_draft = Some(TRUE)
        is_git_tag_enabled == value.git_tag_enable # Some(FALSE)
        release == value.release # Some(FALSE)
        cfg0 ==
            with_release(
                with_git_tag(
                    with_git_release(
                        with_publish(ReleaseConfigDefault,
                                     PublishConfigEnabled(is_publish_enabled)),
                        set_draft(
                            GitReleaseConfigEnabled(is_git_release_enabled),
                            is_git_release_draft)),
                    GitTagConfigEnabled(is_git_tag_enabled)),
                release)
        cfg1 == IF value.publish_no_verify # None
                THEN with_no_verify(cfg0, value.publish_no_verify[1])
                ELSE cfg0
        cfg2 == IF value.publish_allow_dirty # None
                THEN with_allow_dirty(cfg1, value.publish_allow_dirty[1])
                ELSE cfg1
    IN  cfg2

\* impl From<PackageSpecificConfig> for release_plz_core::PackageReleaseConfig
PackageReleaseConfigFrom(config) ==
    [generic |-> ReleaseConfigFrom(config.common),
     changelog_path |-> config.changelog_path]

(***************************************************************************)
(* UpdateRequest / ReleaseRequest of release_plz_core, as far as the       *)
(* resolver writes them: the default package configuration and the         *)
(* per-package overrides, a map keyed by package name.                     *)
(***************************************************************************)
\* The request the caller passes in: nothing registered yet.
NewRequest == [default_package_config |-> None, packages_config |-> <<>>]

with_default_package_config(request, config) ==
    [request EXCEPT !.default_package_config = Some(config)]

with_package_config(request, name, config) ==
    [request EXCEPT !.packages_config =
        [n \in (DOMAIN request.packages_config) \cup {name} |->
            IF n = name THEN config ELSE request.packages_config[n]]]

(***************************************************************************)
(* Config::packages: the HashMap collected from the package list; a later  *)
(* entry replaces an earlier one with the same name.                       *)
(***************************************************************************)
\* The collection keeping the first entry of a name: a later entry with a
\* name already in the map is dropped.
RECURSIVE CollectPackages_first_wins(_, _)
CollectPackages_first_wins(list, map) ==
    IF list = <<>> THEN map
    ELSE CollectPackages_first_wins(
            Tail(list),
            [n \in (DOMAIN map) \cup {Head(list).name} |->
                IF n \in DOMAIN map THEN map[n] ELSE Head(list).config])

RECURSIVE CollectPackages(_, _)
CollectPackages(list, map) ==
    IF list = <<>> THEN map
    ELSE CollectPackages(
            Tail(list),
            [n \in (DOMAIN map) \cup {Head(list).name} |->
                IF n = Head(list).name THEN Head(list).config ELSE map[n]])

packages(pkgs) == CollectPackages(pkgs, <<>>)

(***************************************************************************)
(* Config::fill_update_config                                              *)
(***************************************************************************)
\* The loop body without the override of the merged changelog_update.
update_package_config_unforced(config, packages_defaults, is_changelog_update_disabled) ==
    PackageUpdateConfigFrom(merge_specific(config, packages_defaults))

\* Body of the loop over self.packages(), for one entry.
update_package_config(config, packages_defaults, is_changelog_update_disabled) ==
    LET update_config == merge_specific(config, packages_defaults)
        forced == IF is_changelog_update_disabled
                  THEN [update_config EXCEPT
                            !.common.changelog_update = Some(FALSE)]
                  ELSE update_config
    IN  PackageUpdateConfigFrom(forced)

\* The loop over self.packages(); the HashMap yields each key once, in an
\* order the program does not control.
RECURSIVE update_loop(_, _, _, _, _)
update_loop(map, todo, packages_defaults, is_changelog_update_disabled, request) ==
    IF todo = {} THEN request
    ELSE LET name == CHOOSE n \in todo : TRUE
         IN  update_loop(map, todo \ {name}, packages_defaults,
                         is_changelog_update_disabled,
                         with_package_config(
                             request, name,
                             update_package_config(
                                 map[name], packages_defaults,
                                 is_changelog_update_disabled)))

fill_update_config(ws, pkgs, is_changelog_update_disabled, request) ==
    LET default_update_config ==
            IF is_changelog_update_disabled
            THEN [ws.packages_defaults EXCEPT !.changelog_update = Some(FALSE)]
            ELSE ws.packages_defaults
        request0 ==
            with_default_package_config(
                request, UpdateConfigFrom(default_update_config))
    IN  update_loop(packages(pkgs), DOMAIN packages(pkgs),
                    ws.packages_defaults, is_changelog_update_disabled,
                    request0)

(***************************************************************************)
(* Config::fill_release_config                                             *)
(***************************************************************************)
\* The loop body with the force-flags filling only an absent value.
release_package_config_fill_absent(config, packages_defaults, allow_dirty, no_verify) ==
    LET release_config == merge_specific(config, packages_defaults)
        forced1 == IF no_verify
                   THEN [release_config EXCEPT
                             !.common.publish_no_verify =
                                 Or(@, Some(TRUE))]
                   ELSE release_config
        forced2 == IF allow_dirty
                   THEN [forced1 EXCEPT
                             !.common.publish_allow_dirty =
                                 Or(@, Some(TRUE))]
                   ELSE forced1
    IN  PackageReleaseConfigFrom(forced2)

\* Body of the loop over self.packages(), for one entry.
release_package_config(config, packages_defaults, allow_dirty, no_verify) ==
    LET release_config == merge_specific(config, packages_defaults)
        forced1 == IF no_verify
                   THEN [release_config EXCEPT
                             !.common.publish_no_verify = Some(TRUE)]
                   ELSE release_config
        forced2 == IF allow_dirty
                   THEN [forced1 EXCEPT
                             !.common.publish_allow_dirty = Some(TRUE)]
                   ELSE forced1
    IN  PackageReleaseConfigFrom(forced2)

\* The loop with the override written as in fill_update_config: the
\* no_verify flag stores false.
RECURSIVE release_loop_no_verify_false(_, _, _, _, _, _)
release_loop_no_verify_false(map, todo, packages_defaults, allow_dirty, no_verify, request) ==
    IF todo = {} THEN request
    ELSE LET name == CHOOSE n \in todo : TRUE
             release_config == merge_specific(map[name], packages_defaults)
             forced1 == IF no_verify
                        THEN [release_config EXCEPT
                                  !.common.publish_no_verify = Some(FALSE)]
                        ELSE release_config
             forced2 == IF allow_dirty
                        THEN [forced1 EXCEPT
                                  !.common.publish_allow_dirty = Some(TRUE)]
                        ELSE forced1
         IN  release_loop_no_verify_false(
                 map, todo \ {name}, packages_defaults, allow_dirty,
                 no_verify,
                 with_package_config(request, name,
                                     PackageReleaseConfigFrom(forced2)))

RECURSIVE release_loop(_, _, _, _, _, _)
release_loop(map, todo, packages_defaults, allow_dirty, no_verify, request) ==
    IF todo = {} THEN request
    ELSE LET name == CHOOSE n \in todo : TRUE
         IN  release_loop(map, todo \ {name}, packages_defaults,
                          allow_dirty, no_verify,
                          with_package_config(
                              request, name,
                              release_package_config(
                                  map[name], packages_defaults,
                                  allow_dirty, no_verify)))

fill_release_config(ws, pkgs, allow_dirty, no_verify, request) ==
    LET default0 == ws.packages_defaults
        default1 == IF no_verify
                    THEN [default0 EXCEPT !.publish_no_verify = Some(TRUE)]
                    ELSE default0
        default_config ==
                    IF allow_dirty
                    THEN [default1 EXCEPT !.publish_allow_dirty = Some(TRUE)]
                    ELSE default1
        request0 ==
            with_default_package_config(
                request, ReleaseConfigFrom(default_config))
    IN  release_loop(packages(pkgs), DOMAIN packages(pkgs),
                     ws.packages_defaults, allow_dirty, no_verify, request0)

(***************************************************************************)
(* Initial states and actions of the configuration resolver.               *)
(***************************************************************************)
NoRepoUrl ==
    /\ git_host_url = None
    /\ git_url = None
    /\ repo_url = None
    /\ link = None

\* A configuration as loaded: any document within the bounds.
InitConfig ==
    /\ \E names \in NameLists :
       \E S \in Documents(Len(names), MaxPresent) :
            /\ workspace = WorkspaceOf(S)
            /\ package = [i \in 1..Len(names) |-> PackageOf(S, i, names[i])]
    /\ call = [op |-> "load"]
    /\ merged = None
    /\ duration = None
    /\ update_request = NewRequest
    /\ release_request = NewRequest
    /\ NoRepoUrl

FillUpdateConfig(is_changelog_update_disabled) ==
    /\ call.op = "load"
    /\ update_request' =
           fill_update_config(workspace, package,
                              is_changelog_update_disabled, NewRequest)
    /\ call' = [op |-> "fill_update_config",
                is_changelog_update_disabled |-> is_changelog_update_disabled]
    /\ UNCHANGED <<workspace, package, merged, release_request, duration>>
    /\ UNCHANGED repoVars

FillReleaseConfig(allow_dirty, no_verify) ==
    /\ call.op = "load"
    /\ release_request' =
           fill_release_config(workspace, package, allow_dirty, no_verify,
                               NewRequest)
    /\ call' = [op |-> "fill_release_config",
                allow_dirty |-> allow_dirty, no_verify |-> no_verify]
    /\ UNCHANGED <<workspace, package, merged, update_request, duration>>
    /\ UNCHANGED repoVars

NextConfig ==
    \/ \E flag \in BOOLEAN : FillUpdateConfig(flag)
    \/ \E allow_dirty \in BOOLEAN, no_verify \in BOOLEAN :
           FillReleaseConfig(allow_dirty, no_verify)

SpecConfig == InitConfig /\ [][NextConfig]_vars

(***************************************************************************)
(* Initial states and action of the merge.                                 *)
(***************************************************************************)
\* A package entry and workspace defaults: any pair within the bound.
InitMerge ==
    /\ \E name \in {"crate1"} :
       \E S \in Documents(1, MaxMergePresent) :
            /\ workspace = WorkspaceOf(S)
            /\ package = <<PackageOf(S, 1, name)>>
    /\ call = [op |-> "load"]
    /\ merged = None
    /\ duration = None
    /\ update_request = NewRequest
    /\ release_request = NewRequest
    /\ NoRepoUrl

Merge ==
    /\ call.op = "load"
    /\ merged' = Some(merge_specific(package[1].config,
                                     workspace.packages_defaults))
    /\ call' = [op |-> "merge"]
    /\ UNCHANGED <<workspace, package, update_request, release_request,
                   duration>>
    /\ UNCHANGED repoVars

NextMerge == Merge

SpecMerge == InitMerge /\ [][NextMerge]_vars

(***************************************************************************)
(* Repository URL model.                                                   *)
(***************************************************************************)
\* Result<T, anyhow::Error>
Ok(v) == [ok |-> TRUE, value |-> v]
Err(msg) == [ok |-> FALSE, error |-> msg]

\* Strings handed to RepoUrl::new.
GitHostUrls ==
    {"https://github.com/MarcoIeni/release-plz",
     "git@gitea.example.org:3000/owner/repo.git"}

\* Values of the fields of a parsed GitUrl.
Schemes == {"https", "http", "ssh"}
Hosts == {"github.com", "code.mygithub.io", "gitea.example.org", "GitHub.local"}
Ports == {22, 3000}
Owners == {"MarcoIeni"}
RepoNames == {"release-plz"}
Tags == {"v0.0.1", "v0.1.0", "v0.5.0"}

\* Outcomes of GitUrl::parse.  The parser is the git_url_parse crate: its
\* outcome is an error or a GitUrl with any combination of optional fields.
GitUrlOutcomes ==
    {Err("url parse failed")}
    \cup
    { Ok([scheme |-> sc, host |-> h, port |-> p, owner |-> o, name |-> n]) :
        sc \in Schemes,
        h \in {None} \cup {Some(x) : x \in Hosts},
        p \in {None} \cup {Some(x) : x \in Ports},
        o \in {None} \cup {Some(x) : x \in Owners},
        n \in RepoNames }

\* Display of an unsigned integer: its decimal digits.
Digit(d) == SubSeq("0123456789", d + 1, d + 1)

RECURSIVE U16ToString(_)
U16ToString(n) ==
    IF n < 10 THEN Digit(n)
    ELSE U16ToString(n \div 10) \o Digit(n % 10)

\* str::contains
Contains(s, pat) ==
    \E i \in 1..(Len(s) - Len(pat) + 1) :
        SubSeq(s, i, i + Len(pat) - 1) = pat

\* RepoUrl::new with the owner's context message pasted onto the host.
RepoUrlNew_same_message(url, parsed) ==
    IF ~parsed.ok
    THEN Err("cannot parse git url " \o url \o ": " \o parsed.error)
    ELSE IF parsed.value.owner = None
    THEN Err("cannot find owner in git url " \o url)
    ELSE IF parsed.value.host = None
    THEN Err("cannot find owner in git url " \o url)
    ELSE Ok([owner |-> parsed.value.owner[1],
             name |-> parsed.value.name,
             host |-> parsed.value.host[1],
             port |-> parsed.value.port,
             scheme |-> parsed.value.scheme])

\* RepoUrl::new, after GitUrl::parse has produced `parsed`.
RepoUrlNew(url, parsed) ==
    IF ~parsed.ok
    THEN Err("cannot parse git url " \o url \o ": " \o parsed.error)
    ELSE IF parsed.value.owner = None
    THEN Err("cannot find owner in git url " \o url)
    ELSE IF parsed.value.host = None
    THEN Err("cannot find host in git url " \o url)
    ELSE Ok([owner |-> parsed.value.owner[1],
             name |-> parsed.value.name,
             host |-> parsed.value.host[1],
             port |-> parsed.value.port,
             scheme |-> parsed.value.scheme])

\* is_on_github as a prefix test.
is_on_github_starts_with(self) ==
    Len(self.host) >= 6 /\ SubSeq(self.host, 1, 6) = "github"

\* RepoUrl::is_on_github
is_on_github(self) == Contains(self.host, "github")

\* git_release_link building its base from the parsed scheme.
git_release_link_parsed_scheme(self, prev_tag, new_tag) ==
    LET host == self.scheme \o "://" \o self.host \o "/" \o self.owner
                    \o "/" \o self.name
    IN  IF prev_tag = new_tag
        THEN host \o "/releases/tag/" \o new_tag
        ELSE host \o "/compare/" \o prev_tag \o "..." \o new_tag

\* RepoUrl::git_release_link
git_release_link(self, prev_tag, new_tag) ==
    LET host == "https://" \o self.host \o "/" \o self.owner \o "/" \o self.name
    IN  IF prev_tag = new_tag
        THEN host \o "/releases/tag/" \o new_tag
        ELSE host \o "/compare/" \o prev_tag \o "..." \o new_tag

\* RepoUrl::git_pr_link
git_pr_link(self) ==
    LET host == "https://" \o self.host \o "/" \o self.owner \o "/" \o self.name
        pull_path == IF is_on_github(self) THEN "pull" ELSE "pulls"
    IN  host \o "/" \o pull_path

\* gitea_api_url with https hardcoded, as in the other link builders.
gitea_api_url_https(self) ==
    LET v1 == "api/v1/"
    IN  IF self.port # None
        THEN "https://" \o self.host \o ":"
                 \o U16ToString(self.port[1]) \o "/" \o v1
        ELSE "https://" \o self.host \o "/" \o v1

\* RepoUrl::gitea_api_url
gitea_api_url(self) ==
    LET v1 == "api/v1/"
    IN  IF self.port # None
        THEN self.scheme \o "://" \o self.host \o ":"
                 \o U16ToString(self.port[1]) \o "/" \o v1
        ELSE self.scheme \o "://" \o self.host \o "/" \o v1

(***************************************************************************)
(* Initial states and actions of the repository URL model.                 *)
(***************************************************************************)
NoConfig ==
    /\ workspace = None
    /\ package = <<>>
    /\ merged = None
    /\ duration = None
    /\ update_request = NewRequest
    /\ release_request = NewRequest

\* A remote URL and what the parser makes of it.
InitRepoUrl ==
    /\ git_host_url \in GitHostUrls
    /\ git_url \in GitUrlOutcomes
    /\ repo_url = None
    /\ link = None
    /\ call = [op |-> "start"]
    /\ NoConfig

New ==
    /\ repo_url = None
    /\ repo_url' = Some(RepoUrlNew(git_host_url, git_url))
    /\ call' = [op |-> "new"]
    /\ UNCHANGED <<git_host_url, git_url, link>>
    /\ UNCHANGED configVars

\* The link builders take &self: they need a RepoUrl that was constructed.
HasRepoUrl == repo_url # None /\ repo_url[1].ok

GitReleaseLink(prev_tag, new_tag) ==
    /\ HasRepoUrl
    /\ link' = Some(git_release_link(repo_url[1].value, prev_tag, new_tag))
    /\ call' = [op |-> "git_release_link",
                prev_tag |-> prev_tag, new_tag |-> new_tag]
    /\ UNCHANGED <<git_host_url, git_url, repo_url>>
    /\ UNCHANGED configVars

GitPrLink ==
    /\ HasRepoUrl
    /\ link' = Some(git_pr_link(repo_url[1].value))
    /\ call' = [op |-> "git_pr_link"]
    /\ UNCHANGED <<git_host_url, git_url, repo_url>>
    /\ UNCHANGED configVars

GiteaApiUrl ==
    /\ HasRepoUrl
    /\ link' = Some(gitea_api_url(repo_url[1].value))
    /\ call' = [op |-> "gitea_api_url"]
    /\ UNCHANGED <<git_host_url, git_url, repo_url>>
    /\ UNCHANGED configVars

NextRepoUrl ==
    \/ New
    \/ \E prev_tag \in Tags, new_tag \in Tags :
           GitReleaseLink(prev_tag, new_tag)
    \/ GitPrLink
    \/ GiteaApiUrl

SpecRepoUrl == InitRepoUrl /\ [][NextRepoUrl]_vars

(***************************************************************************)
(* Workspace::publish_timeout                                              *)
(***************************************************************************)
\* The unit suffixes of a duration string and their length in seconds.
TimeUnits == {"s", "m", "h", "d"}

UnitSeconds(unit) ==
    CASE unit = "s" -> 1
      [] unit = "m" -> 60
      [] unit = "h" -> 60 * 60
      [] unit = "d" -> 24 * 60 * 60

\* std::time::Duration, in whole seconds.
DurationFromSecs(secs) == [secs |-> secs]

IsDigit(c) == \E d \in 0..9 : Digit(d) = c

\* Number of leading decimal digits of s, counted from position i.
RECURSIVE DigitsFrom(_, _)
DigitsFrom(s, i) ==
    IF i <= Len(s) /\ IsDigit(SubSeq(s, i, i))
    THEN 1 + DigitsFrom(s, i + 1)
    ELSE 0

\* Value of a non-empty string of decimal digits.
RECURSIVE ParseNumber(_)
ParseNumber(digits) ==
    LET last == CHOOSE d \in 0..9 :
                    Digit(d) = SubSeq(digits, Len(digits), Len(digits))
    IN  IF Len(digits) = 1 THEN last
        ELSE 10 * ParseNumber(SubSeq(digits, 1, Len(digits) - 1)) + last

\* duration_str::parse on a string of the form <number><unit>: the number
\* of units as a Duration, and an error for anything else.
DurationStrParse(s) ==
    LET n == DigitsFrom(s, 1)
        unit == SubSeq(s, n + 1, Len(s))
    IN  IF n >= 1 /\ unit \in TimeUnits
        THEN Ok(DurationFromSecs(
                    ParseNumber(SubSeq(s, 1, n)) * UnitSeconds(unit)))
        ELSE Err("expect one of the units after a number")

\* publish_timeout falling back to the default also when the configured
\* string does not parse.
publish_timeout_default_on_error(self) ==
    LET configured == IF self.publish_timeout # None
                      THEN self.publish_timeout[1] ELSE "30m"
        parsed == DurationStrParse(configured)
    IN  IF parsed.ok THEN parsed ELSE DurationStrParse("30m")

\* Workspace::publish_timeout
publish_timeout(self) ==
    LET timeout == IF self.publish_timeout # None
                   THEN self.publish_timeout[1] ELSE "30m"
        parsed == DurationStrParse(timeout)
    IN  IF parsed.ok THEN parsed
        ELSE Err("invalid publish_timeout " \o timeout)

\* Strings a configuration file can give publish_timeout: a number with a
\* unit, a number with something that is no unit, and no number at all.
WellFormedTimeouts ==
    { U16ToString(n) \o unit : n \in 0..MaxTimeout, unit \in TimeUnits }

MalformedTimeouts ==
    { U16ToString(n) \o tail : n \in 0..MaxTimeout, tail \in {"x", "m?"} }
    \cup {"m", "abc"}

\* A workspace as loaded, with or without a publish_timeout.
InitTimeout ==
    /\ \E timeout \in {None} \cup { Some(t) : t \in WellFormedTimeouts
                                                   \cup MalformedTimeouts } :
          workspace = [packages_defaults |-> PackageConfigOf({}, 0),
                       publish_timeout |-> timeout]
    /\ package = <<>>
    /\ call = [op |-> "load"]
    /\ merged = None
    /\ duration = None
    /\ update_request = NewRequest
    /\ release_request = NewRequest
    /\ NoRepoUrl

PublishTimeout ==
    /\ call.op = "load"
    /\ duration' = Some(publish_timeout(workspace))
    /\ call' = [op |-> "publish_timeout"]
    /\ UNCHANGED <<workspace, package, merged, update_request,
                   release_request>>
    /\ UNCHANGED repoVars

NextTimeout == PublishTimeout

SpecTimeout == InitTimeout /\ [][NextTimeout]_vars

(***************************************************************************)
(* The resolver on a configuration whose [[package]] entries all carry     *)
(* the same name.                                                          *)
(***************************************************************************)
InitDuplicates ==
    /\ \E n \in 2..MaxSameName :
       \E S \in Documents(n, MaxPresent) :
            /\ workspace = WorkspaceOf(S)
            /\ package = [i \in 1..n |-> PackageOf(S, i, "crate1")]
    /\ call = [op |-> "load"]
    /\ merged = None
    /\ duration = None
    /\ update_request = NewRequest
    /\ release_request = NewRequest
    /\ NoRepoUrl

SpecDuplicates == InitDuplicates /\ [][NextConfig]_vars

(***************************************************************************)
(* Properties of the merge (checked under SpecMerge).                      *)
(***************************************************************************)
\* The arguments and the result of the merge.
MergeSelf == package[1].config.common
MergeDefault == workspace.packages_defaults

\* C1: PackageConfig::merge is a per-field coalesce: each of the ten fields
\* of merge(p, d) is p's value of that field when p has one and d's value of
\* that field otherwise, whatever the other fields hold.
C1_MergeIsPerFieldCoalesce ==
    merged # None =>
        /\ DOMAIN merged[1].common = PackageConfigFields
        /\ \A f \in PackageConfigFields :
              merged[1].common[f] =
                  IF Len(MergeSelf[f]) = 1 THEN MergeSelf[f]
                  ELSE MergeDefault[f]

\* A merge in which one field comes from p against a differing d, and
\* another field, absent in p, comes from d.
C1_Witness ==
    /\ merged # None
    /\ MergeSelf.changelog_update = Some(TRUE)
    /\ MergeDefault.changelog_update = Some(FALSE)
    /\ MergeSelf.publish_allow_dirty = None
    /\ MergeDefault.publish_allow_dirty = Some(TRUE)
    /\ merged[1].common.changelog_update = Some(TRUE)
    /\ merged[1].common.publish_allow_dirty = Some(TRUE)

(***************************************************************************)
(* Properties of the resolver (checked under SpecConfig).                  *)
(***************************************************************************)
\* The names of the declared packages.
DeclaredNames == { package[i].name : i \in 1..Len(package) }

\* C2: with force_disable_changelog set, fill_update_config yields
\* changelog_update = false in the default update config and in the update
\* config of every declared package, whatever the declared values are.
C2_ForceDisableChangelogWins ==
    (call.op = "fill_update_config" /\ call.is_changelog_update_disabled) =>
        /\ update_request.default_package_config # None
        /\ update_request.default_package_config[1].changelog_update = FALSE
        /\ \A name \in DeclaredNames :
              /\ name \in DOMAIN update_request.packages_config
              /\ update_request.packages_config[name].generic.changelog_update
                     = FALSE

\* The flag is set against an explicit true at both levels.
C2_Witness ==
    /\ call.op = "fill_update_config"
    /\ call.is_changelog_update_disabled
    /\ Len(package) >= 1
    /\ package[1].config.common.changelog_update = Some(TRUE)
    /\ workspace.packages_defaults.changelog_update = Some(TRUE)
    /\ update_request.packages_config[package[1].name]
           .generic.changelog_update = FALSE

\* C3: with force_allow_dirty (resp. force_no_verify) set,
\* fill_release_config yields allow_dirty = true (resp. no_verify = true) in
\* the default release config and in the release config of every declared
\* package, whatever the declared values are.
C3_ForceAllowDirtyNoVerifyWin ==
    call.op = "fill_release_config" =>
        /\ release_request.default_package_config # None
        /\ call.allow_dirty =>
              /\ release_request.default_package_config[1].allow_dirty = TRUE
              /\ \A name \in DeclaredNames :
                    /\ name \in DOMAIN release_request.packages_config
                    /\ release_request.packages_config[name]
                           .generic.allow_dirty = TRUE
        /\ call.no_verify =>
              /\ release_request.default_package_config[1].no_verify = TRUE
              /\ \A name \in DeclaredNames :
                    /\ name \in DOMAIN release_request.packages_config
                    /\ release_request.packages_config[name]
                           .generic.no_verify = TRUE

\* Both flags are set against an explicit false, one at each level.
C3_Witness ==
    /\ call.op = "fill_release_config"
    /\ call.allow_dirty
    /\ call.no_verify
    /\ Len(package) >= 1
    /\ package[1].config.common.publish_allow_dirty = Some(FALSE)
    /\ workspace.packages_defaults.publish_no_verify = Some(FALSE)
    /\ release_request.packages_config[package[1].name].generic.allow_dirty
    /\ release_request.packages_config[package[1].name].generic.no_verify

\* The resolved booleans of an UpdateConfig and of a ReleaseConfig.
UpdateBoolNames == {"semver_check", "changelog_update", "release"}

ReleaseBools(cfg) ==
    [publish |-> cfg.publish.enabled,
     git_release |-> cfg.git_release.enabled,
     git_release_draft |-> cfg.git_release.draft,
     git_tag |-> cfg.git_tag.enabled,
     no_verify |-> cfg.no_verify,
     allow_dirty |-> cfg.allow_dirty,
     release |-> cfg.release]

ReleaseBoolNames == DOMAIN ReleaseBools(ReleaseConfigDefault)

\* What the resolver returns for the loaded configuration with the given
\* flags.
UpdateResolution(flag) ==
    fill_update_config(workspace, package, flag, NewRequest)

ReleaseResolution(allow_dirty, no_verify) ==
    fill_release_config(workspace, package, allow_dirty, no_verify, NewRequest)

\* No boolean of the update request `set` is false where `unset` has true,
\* the booleans in `except` aside.
UpdateOnlyTowardTrue(unset, set, except) ==
    /\ \A b \in UpdateBoolNames \ except :
          unset.default_package_config[1][b]
              => set.default_package_config[1][b]
    /\ \A name \in DOMAIN unset.packages_config :
       \A b \in UpdateBoolNames \ except :
          unset.packages_config[name].generic[b]
              => set.packages_config[name].generic[b]

ReleaseOnlyTowardTrue(unset, set) ==
    /\ \A b \in ReleaseBoolNames :
          ReleaseBools(unset.default_package_config[1])[b]
              => ReleaseBools(set.default_package_config[1])[b]
    /\ \A name \in DOMAIN unset.packages_config :
       \A b \in ReleaseBoolNames :
          ReleaseBools(unset.packages_config[name].generic)[b]
              => ReleaseBools(set.packages_config[name].generic)[b]

\* The release force-flags, each against the same call with it unset.
ReleaseFlagsOnlyTowardTrue ==
    call.op = "fill_release_config" =>
        /\ call.allow_dirty =>
              ReleaseOnlyTowardTrue(ReleaseResolution(FALSE, call.no_verify),
                                    release_request)
        /\ call.no_verify =>
              ReleaseOnlyTowardTrue(ReleaseResolution(call.allow_dirty, FALSE),
                                    release_request)

\* C4 as stated: every force-flag, force_disable_changelog included, only
\* pushes resolved booleans toward true: no resolved boolean that is true
\* with the flag unset is false with the flag set.
C4_EveryForceFlagOnlyTowardTrue ==
    /\ (call.op = "fill_update_config" /\ call.is_changelog_update_disabled)
           => UpdateOnlyTowardTrue(UpdateResolution(FALSE), update_request, {})
    /\ ReleaseFlagsOnlyTowardTrue

\* C4 amended: force_allow_dirty and force_no_verify only push resolved
\* booleans toward true.  force_disable_changelog pushes changelog_update
\* toward false (it is false with the flag set, whatever it is with the flag
\* unset) and turns no other resolved boolean from true to false.
C4_ForceFlagsDirection ==
    /\ (call.op = "fill_update_config" /\ call.is_changelog_update_disabled)
           =>
           /\ UpdateOnlyTowardTrue(UpdateResolution(FALSE), update_request,
                                   {"changelog_update"})
           /\ ~update_request.default_package_config[1].changelog_update
           /\ \A name \in DOMAIN update_request.packages_config :
                 ~update_request.packages_config[name]
                      .generic.changelog_update
    /\ ReleaseFlagsOnlyTowardTrue

\* force_disable_changelog is set for a package whose changelog_update
\* resolves to true without it: it is false with the flag, and semver_check
\* stays true.
C4_Witness ==
    /\ call.op = "fill_update_config"
    /\ call.is_changelog_update_disabled
    /\ Len(package) >= 1
    /\ LET unset == UpdateResolution(FALSE).packages_config[package[1].name]
           set == update_request.packages_config[package[1].name]
       IN  /\ unset.generic.changelog_update
           /\ ~set.generic.changelog_update
           /\ unset.generic.semver_check
           /\ set.generic.semver_check

\* The entries of the package list that no later entry replaces in
\* Config::packages (all of them when the names are unique).
EffectiveEntries ==
    { i \in 1..Len(package) :
        \A j \in (i + 1)..Len(package) : package[j].name # package[i].name }

\* First present value among (package level, workspace level), else the
\* built-in default.
ThreeTier(package_level, workspace_level, builtin) ==
    IF Len(package_level) = 1 THEN package_level[1]
    ELSE IF Len(workspace_level) = 1 THEN workspace_level[1]
    ELSE builtin

\* C5: with force_disable_changelog unset, each of semver_check,
\* changelog_update and release in a declared package's update config is the
\* package-level value if present, else the workspace-level value if
\* present, else true.
C5_UpdateThreeTierCoalesce ==
    (call.op = "fill_update_config" /\ ~call.is_changelog_update_disabled) =>
        \A i \in EffectiveEntries :
            /\ package[i].name \in DOMAIN update_request.packages_config
            /\ \A f \in {"semver_check", "changelog_update", "release"} :
                  update_request.packages_config[package[i].name].generic[f]
                      = ThreeTier(package[i].config.common[f],
                                  workspace.packages_defaults[f], TRUE)

\* A package-level true overrides a workspace-level false.
C5_Witness ==
    /\ call.op = "fill_update_config"
    /\ ~call.is_changelog_update_disabled
    /\ Len(package) >= 1
    /\ package[1].config.common.semver_check = Some(TRUE)
    /\ workspace.packages_defaults.semver_check = Some(FALSE)
    /\ update_request.packages_config[package[1].name].generic.semver_check

\* C6: with no force-flag set, publish, git_release enabled, git_tag enabled
\* and release of a declared package's release config are the first present
\* value among (package level, workspace level), else true; git_release
\* draft is that first present value, else false.
C6_ReleaseThreeTierCoalesce ==
    (call.op = "fill_release_config" /\ ~call.allow_dirty /\ ~call.no_verify)
    =>
        \A i \in EffectiveEntries :
            /\ package[i].name \in DOMAIN release_request.packages_config
            /\ LET resolved ==
                       release_request.packages_config[package[i].name].generic
                   p == package[i].config.common
                   w == workspace.packages_defaults
               IN  /\ resolved.publish.enabled
                          = ThreeTier(p.publish, w.publish, TRUE)
                   /\ resolved.git_release.enabled
                          = ThreeTier(p.git_release_enable,
                                      w.git_release_enable, TRUE)
                   /\ resolved.git_release.draft
                          = ThreeTier(p.git_release_draft,
                                      w.git_release_draft, FALSE)
                   /\ resolved.git_tag.enabled
                          = ThreeTier(p.git_tag_enable, w.git_tag_enable, TRUE)
                   /\ resolved.release
                          = ThreeTier(p.release, w.release, TRUE)

\* Nothing is declared at either level for draft and publish is switched
\* off for the workspace: the package is not published, and not a draft.
C6_Witness ==
    /\ call.op = "fill_release_config"
    /\ ~call.allow_dirty
    /\ ~call.no_verify
    /\ Len(package) >= 1
    /\ package[1].config.common.publish = None
    /\ workspace.packages_defaults.publish = Some(FALSE)
    /\ package[1].config.common.git_release_draft = None
    /\ workspace.packages_defaults.git_release_draft = None
    /\ ~release_request.packages_config[package[1].name].generic.publish.enabled
    /\ ~release_request.packages_config[package[1].name]
            .generic.git_release.draft
    /\ release_request.packages_config[package[1].name]
           .generic.git_release.enabled

(***************************************************************************)
(* Properties of the repository URL model (checked under SpecRepoUrl).     *)
(***************************************************************************)
\* The RepoUrl the link builders work on.
Repo == repo_url[1].value

\* https://{host}/{owner}/{name}
HttpsBase == "https://" \o Repo.host \o "/" \o Repo.owner \o "/" \o Repo.name

\* C7: git_release_link(prev_tag, new_tag) is
\* https://{host}/{owner}/{name}/releases/tag/{new_tag} exactly when the two
\* tags are equal strings, and
\* https://{host}/{owner}/{name}/compare/{prev_tag}...{new_tag} otherwise,
\* with https:// whatever scheme was parsed.
C7_GitReleaseLink ==
    call.op = "git_release_link" =>
        LET tag_link == HttpsBase \o "/releases/tag/" \o call.new_tag
            compare_link ==
                HttpsBase \o "/compare/" \o call.prev_tag \o "..."
                    \o call.new_tag
        IN  /\ call.prev_tag = call.new_tag => link = Some(tag_link)
            /\ call.prev_tag # call.new_tag =>
                   link = Some(compare_link) /\ link # Some(tag_link)

\* A compare link for two different tags on a remote parsed with ssh.
C7_Witness ==
    /\ call.op = "git_release_link"
    /\ call.prev_tag = "v0.1.0"
    /\ call.new_tag = "v0.5.0"
    /\ Repo.scheme = "ssh"
    /\ Repo.host = "github.com"
    /\ link = Some("https://github.com/MarcoIeni/release-plz/compare/v0.1.0...v0.5.0")

\* The hosts of the model in which "github" occurs, lower case, somewhere.
HostsContainingGithub == {"github.com", "code.mygithub.io"}

\* C8: git_pr_link() is https://{host}/{owner}/{name}/pull if the host
\* contains the substring "github" anywhere, and
\* https://{host}/{owner}/{name}/pulls otherwise.
C8_GitPrLink ==
    call.op = "git_pr_link" =>
        /\ Repo.host \in HostsContainingGithub
               => link = Some(HttpsBase \o "/pull")
        /\ Repo.host \notin HostsContainingGithub
               => link = Some(HttpsBase \o "/pulls")

\* A host with "github" in the middle gets the GitHub path.
C8_Witness ==
    /\ call.op = "git_pr_link"
    /\ Repo.host = "code.mygithub.io"
    /\ link = Some("https://code.mygithub.io/MarcoIeni/release-plz/pull")

\* The decimal text of the ports of the model.
PortText(port) == IF port = 22 THEN "22" ELSE "3000"

\* C9: gitea_api_url() is {scheme}://{host}/api/v1/ when no port was parsed
\* and {scheme}://{host}:{port}/api/v1/ when one was, with the parsed scheme.
C9_GiteaApiUrl ==
    call.op = "gitea_api_url" =>
        /\ Repo.port = None
               => link = Some(Repo.scheme \o "://" \o Repo.host \o "/api/v1/")
        /\ Repo.port # None
               => link = Some(Repo.scheme \o "://" \o Repo.host \o ":"
                                  \o PortText(Repo.port[1]) \o "/api/v1/")

\* An http remote with a port.
C9_Witness ==
    /\ call.op = "gitea_api_url"
    /\ Repo.scheme = "http"
    /\ Repo.port = Some(3000)
    /\ link = Some("http://gitea.example.org:3000/api/v1/")

\* C10: RepoUrl::new returns an error whenever the parsed remote lacks an
\* owner or a host; the owner error and the host error differ, each names
\* the input string, and a remote with an owner but no host gets the host
\* error.
C10_NewFailsWithoutOwnerOrHost ==
    (call.op = "new" /\ git_url.ok) =>
        LET owner_error == "cannot find owner in git url " \o git_host_url
            host_error == "cannot find host in git url " \o git_host_url
            result == repo_url[1]
        IN  /\ owner_error # host_error
            /\ (git_url.value.owner = None \/ git_url.value.host = None)
                   => ~result.ok
            /\ git_url.value.owner = None => result = Err(owner_error)
            /\ (git_url.value.owner # None /\ git_url.value.host = None)
                   => result = Err(host_error)
            /\ ~result.ok => Contains(result.error, git_host_url)

\* A remote with an owner and no host.
C10_Witness ==
    /\ call.op = "new"
    /\ git_url.ok
    /\ git_url.value.owner = Some("MarcoIeni")
    /\ git_url.value.host = None
    /\ repo_url =
           Some(Err("cannot find host in git url https://github.com/MarcoIeni/release-plz"))

(***************************************************************************)
(* Properties of the publish timeout (checked under SpecTimeout).          *)
(***************************************************************************)
\* The seconds a well-formed timeout string stands for.
SecondsOf(text) ==
    LET written == CHOOSE p \in (0..MaxTimeout) \X TimeUnits :
                       text = U16ToString(p[1]) \o p[2]
    IN  written[1] * UnitSeconds(written[2])

\* C11: publish_timeout parses the configured string and falls back to 30m
\* (1800 s) only when the field is unset; a configured string that is
\* malformed gives an error naming that string, never the 30m default.
C11_PublishTimeout ==
    call.op = "publish_timeout" =>
        LET configured == workspace.publish_timeout
            result == duration[1]
        IN  /\ configured = None => result = Ok(DurationFromSecs(1800))
            /\ (configured # None /\ configured[1] \in WellFormedTimeouts)
                   => result = Ok(DurationFromSecs(SecondsOf(configured[1])))
            /\ (configured # None /\ configured[1] \in MalformedTimeouts)
                   => /\ ~result.ok
                      /\ result.error
                             = "invalid publish_timeout " \o configured[1]

\* A number with something that is no unit is refused by name.
C11_Witness ==
    /\ call.op = "publish_timeout"
    /\ workspace.publish_timeout = Some("10x")
    /\ duration = Some(Err("invalid publish_timeout 10x"))

(***************************************************************************)
(* Properties of repeated package names (checked under SpecDuplicates).    *)
(***************************************************************************)
\* The last entry of the package list.
LastEntry == package[Len(package)]

\* C12: when entries of the package list share a name, Config::packages
\* keeps one entry for it, the last in declaration order, and
\* fill_update_config and fill_release_config register one resolved
\* configuration for the name, the one the last entry alone gives with the
\* workspace defaults; earlier entries contribute no field.
C12_LastDuplicateWins ==
    /\ DOMAIN packages(package) = DeclaredNames
    /\ \A name \in DeclaredNames : packages(package)[name] = LastEntry.config
    /\ call.op = "fill_update_config" =>
          /\ DOMAIN update_request.packages_config = DeclaredNames
          /\ update_request =
                 fill_update_config(workspace, <<LastEntry>>,
                                    call.is_changelog_update_disabled,
                                    NewRequest)
          /\ \A name \in DeclaredNames :
                LET resolved == update_request.packages_config[name]
                IN  /\ resolved.changelog_path
                           = LastEntry.config.changelog_path
                    /\ resolved.generic.semver_check
                           = ThreeTier(LastEntry.config.common.semver_check,
                                       workspace.packages_defaults.semver_check,
                                       TRUE)
    /\ call.op = "fill_release_config" =>
          /\ DOMAIN release_request.packages_config = DeclaredNames
          /\ release_request =
                 fill_release_config(workspace, <<LastEntry>>,
                                     call.allow_dirty, call.no_verify,
                                     NewRequest)
          /\ \A name \in DeclaredNames :
                LET resolved == release_request.packages_config[name]
                IN  /\ resolved.changelog_path
                           = LastEntry.config.changelog_path
                    /\ resolved.generic.publish.enabled
                           = ThreeTier(LastEntry.config.common.publish,
                                       workspace.packages_defaults.publish,
                                       TRUE)

\* The first entry of a name switches publish off and the last entry says
\* nothing about it: the package is published.
C12_Witness ==
    /\ call.op = "fill_release_config"
    /\ Len(package) >= 2
    /\ package[1].name = LastEntry.name
    /\ package[1].config.common.publish = Some(FALSE)
    /\ LastEntry.config.common.publish = None
    /\ workspace.packages_defaults.publish = None
    /\ DOMAIN release_request.packages_config = {"crate1"}
    /\ release_request.packages_config["crate1"].generic.publish.enabled
====
